---- MODULE Spec2Model ----
(***************************************************************************)
(* mmake: the build driver of src/mmake.c.                                 *)
(*                                                                         *)
(* main() selects the targets, run_makefile() walks the prerequisites      *)
(* depth first, check_file() is the staleness test and run_cmd() forks a   *)
(* child, waits for it and records its exit status in start_args.exitcode. *)
(* The recursion of run_makefile() is an explicit stack of frames; every   *)
(* step of the program is one action.  The parsed makefile (parser.h), the *)
(* file system and the behaviour of the children are inputs.               *)
(***************************************************************************)
EXTENDS Integers, Sequences, FiniteSets, TLC

\* ------------------------------------------------------------------ bounds

\* largest modification time of a file that exists before the run
MaxTime == 2
\* how many seconds may pass during the run (the clock stops there)
MaxTicks == 1
\* most target names on the command line
MaxTargets == 2
\* deepest nesting of run_makefile() calls the model follows
MaxDepth == 4

\* ---------------------------------------------------------------- constants

\* <stdlib.h>: exit(EXIT_FAILURE) of check_file()
EXIT_FAILURE == 1
\* errno of a failed fork(), exit(errno) of run_cmd()
EAGAIN == 11
\* errno of a failed waitpid(), exit(errno) of run_cmd()
ECHILD == 10
\* errno of execvp() on a program that does not exist, exit(errno) of the child
ENOENT == 2
\* errno of execvp() on a null file name, exit(errno) of the child
EFAULT == 14

\* ---------------------------------------------------------------- makefiles

Names == {"a", "b", "c", "d"}

\* the names that can be given on the command line
ArgNames == {"a", "b", "d"}

\* A rule as parser.h hands it out.  rule_prereq() is either NULL (pnull) or
\* a NULL-terminated array (prereq, possibly of length 0); rule_cmd() is a
\* NULL-terminated argv, empty when cmd is FALSE.
NoRule == [has |-> FALSE, pnull |-> FALSE, prereq |-> <<>>, cmd |-> FALSE]

R(p) == [has |-> TRUE, pnull |-> FALSE, prereq |-> p, cmd |-> TRUE]

RNull == [has |-> TRUE, pnull |-> TRUE, prereq |-> <<>>, cmd |-> TRUE]

RNoCmd(p) == [has |-> TRUE, pnull |-> FALSE, prereq |-> p, cmd |-> FALSE]

Mk(dflt, ra, rb, rc, rd) ==
    [dflt |-> dflt, rules |-> [n \in Names |->
        CASE n = "a" -> ra [] n = "b" -> rb [] n = "c" -> rc [] n = "d" -> rd]]

\* app -> app.o -> app.c
Chain == Mk("a", R(<<"b">>), R(<<"c">>), NoRule, NoRule)

\* c is reached from a directly and through b
Diamond == Mk("a", R(<<"b", "c">>), R(<<"c">>), R(<<"d">>), NoRule)

\* rules without prerequisites, in both shapes rule_prereq() can report
Phony == Mk("a", R(<<"b", "c">>), RNull, R(<<>>), RNull)

\* a dependency cycle
Cycle == Mk("a", R(<<"b">>), R(<<"a">>), NoRule, RNull)

\* a rule without a command, and a prerequisite declared after a leaf
Marker == Mk("a", RNoCmd(<<"b", "d">>), R(<<"d", "c">>), RNull, NoRule)

\* a name without a rule declared between two prerequisites with rules
Late == Mk("a", R(<<"b", "d", "c">>), R(<<"c">>), RNull, NoRule)

Makefiles == {Chain, Diamond, Phony, Cycle, Marker, Late}

\* ------------------------------------------------------------------- state

VARIABLES
    m,          \* the parsed makefile
    arg_b,      \* start_args.arg_b: option -B
    target,     \* start_args.target: the names on the command line
    exitcode,   \* start_args.exitcode
    exists,     \* file system: which names are files
    mtime,      \* file system: st_mtime of the files
    now,        \* the clock, in seconds
    pc,         \* "main" or "exited"
    ti,         \* main's i: how many top-level run_makefile() calls were made
    stack,      \* the active run_makefile() calls, innermost last
    status,     \* the status the process exited with
    how,        \* which exit() ended the process
    calls,      \* history: every run_makefile() call, <<name, depth>>
    children,   \* history: every run_cmd() that forked, [rule, top]
    last,       \* history: how the last child ended, [kind, st]
    touched,    \* history: every child so far has written its rule's file
    wexit,      \* history: the status of the last child that exited, 0 if none
    scenario,   \* history: which of the known starting points the run had
    out,        \* history: the rules whose command line was printed
    ret         \* history: the last run_makefile() call that returned

vars == <<m, arg_b, target, exitcode, exists, mtime, now, pc, ti, stack,
          status, how, calls, children, last, touched, wexit, scenario, out, ret>>

c_tar == Len(target)

makefile_rule(n) == m.rules[n]

makefile_default_target == m.dflt

rule_prereq(r) == r.prereq

\* the names main() hands to run_makefile(), in order
Requested == IF c_tar = 0 THEN <<makefile_default_target>> ELSE target

\* ------------------------------------------------------------- check_file

\* check_file() without the exit() of line 287
check_file_lenient(current, prereq) ==
    IF ~exists[prereq] THEN "true"
    ELSE IF ~exists[current] THEN "true"
    ELSE IF mtime[prereq] < mtime[current] \/ mtime[prereq] = mtime[current]
         THEN "false"
         ELSE "true"

\* check_file() with the comparison of line 306 turned round
check_file_older(current, prereq) ==
    IF ~exists[prereq]
    THEN IF ~makefile_rule(prereq).has THEN "fatal" ELSE "true"
    ELSE IF ~exists[current] THEN "true"
    ELSE IF mtime[prereq] > mtime[current] \/ mtime[prereq] = mtime[current]
         THEN "false"
         ELSE "true"

\* check_file() without the second half of line 306: a tie is stale
check_file_ties(current, prereq) ==
    IF ~exists[prereq]
    THEN IF ~makefile_rule(prereq).has THEN "fatal" ELSE "true"
    ELSE IF ~exists[current] THEN "true"
    ELSE IF mtime[prereq] < mtime[current]
         THEN "false"
         ELSE "true"

\* check_file() with the test of line 292 before the test of line 282
check_file_target_first(current, prereq) ==
    IF ~exists[current] THEN "true"
    ELSE IF ~exists[prereq]
    THEN IF ~makefile_rule(prereq).has THEN "fatal" ELSE "true"
    ELSE IF mtime[prereq] < mtime[current] \/ mtime[prereq] = mtime[current]
         THEN "false"
         ELSE "true"

\* "fatal": exit(EXIT_FAILURE); "true"/"false": the value returned
check_file(current, prereq) ==
    IF ~exists[prereq]
    THEN IF ~makefile_rule(prereq).has THEN "fatal" ELSE "true"
    ELSE IF ~exists[current] THEN "true"
    ELSE IF mtime[prereq] < mtime[current] \/ mtime[prereq] = mtime[current]
         THEN "false"
         ELSE "true"

\* ---------------------------------------------------------------- run_cmd

\* what the child does to the file its rule is named after
Effects == {"none", "touch", "later"}

\* the statuses a command that was started can exit with
ChildStatus == {0, 2}

\* What one run_cmd() can meet.  A rule without a command gives execvp() a
\* null file name: the child either exits with errno or dies of a signal.
Outcomes(r) ==
    {[kind |-> "forkfail", st |-> EAGAIN, eff |-> "none"],
     [kind |-> "waitfail", st |-> ECHILD, eff |-> "none"]}
    \cup
    (IF makefile_rule(r).cmd
     THEN [kind : {"exit"}, st : ChildStatus, eff : Effects]
          \cup [kind : {"signal"}, st : {0}, eff : Effects]
          \cup {[kind |-> "execfail", st |-> ENOENT, eff |-> "none"]}
     ELSE {[kind |-> "execfail", st |-> EFAULT, eff |-> "none"],
           [kind |-> "signal", st |-> 0, eff |-> "none"]})

\* WIFEXITED(status): the child called exit(), also after a failed execvp()
WIFEXITED(o) == o.kind \in {"exit", "execfail"}

\* run_cmd() giving up after a command that failed
FatalOnFailure(o) ==
    o.kind \in {"forkfail", "waitfail"} \/ (WIFEXITED(o) /\ o.st # 0)

\* the exit() calls of run_cmd() itself
Fatal(o) == o.kind \in {"forkfail", "waitfail"}

\* an exitcode that keeps the first failure
NewExitcodeSticky(o) ==
    IF WIFEXITED(o) /\ exitcode = 0 THEN o.st ELSE exitcode

\* WEXITSTATUS() stored without asking WIFEXITED()
NewExitcodeUnchecked(o) == o.st

\* the value run_cmd() leaves in start_args.exitcode
NewExitcode(o) == IF WIFEXITED(o) THEN o.st ELSE exitcode

\* the clock a second later; st_mtime counts whole seconds, so two writes
\* within one second leave equal times
Tick == IF now < MaxTime + MaxTicks THEN now + 1 ELSE now

run_cmd(r, o) ==
    /\ out' = IF makefile_rule(r).cmd THEN Append(out, r) ELSE out
    /\ UNCHANGED scenario
    /\ IF o.kind = "forkfail"
       THEN UNCHANGED <<exists, mtime, now, children, last, touched, wexit>>
       ELSE /\ children' = Append(children, [rule |-> r, top |-> ti])
            /\ last' = [kind |-> o.kind, st |-> o.st]
            /\ touched' = (touched /\ o.eff # "none")
            /\ wexit' = IF WIFEXITED(o) THEN o.st ELSE wexit
            /\ now' = IF o.eff = "later" THEN Tick ELSE now
            /\ exists' = IF o.eff = "none" THEN exists ELSE [exists EXCEPT ![r] = TRUE]
            /\ mtime' = IF o.eff = "none" THEN mtime ELSE [mtime EXCEPT ![r] = now']
    /\ IF Fatal(o)
       THEN /\ pc' = "exited" /\ status' = o.st /\ how' = o.kind
            /\ UNCHANGED exitcode
       ELSE /\ exitcode' = NewExitcode(o)
            /\ UNCHANGED <<pc, status, how>>

\* ----------------------------------------------------------- run_makefile

Top == stack[Len(stack)]

\* some prerequisite is a file strictly newer than the existing file t
Newer(t) ==
    \E k \in 1..Len(makefile_rule(t).prereq) :
        LET p == makefile_rule(t).prereq[k]
        IN  exists[p] /\ exists[t] /\ mtime[p] > mtime[t]

Frame(t) == [target |-> t, i |-> 0, j |-> 0, ran |-> 0, newer |-> Newer(t)]

Returned(f) ==
    [target |-> f.target, rule |-> TRUE, ran |-> f.ran, newer |-> f.newer,
     depth |-> Len(stack) - 1]

\* the stack once its innermost call has returned: the caller's i++
Pop(stk) ==
    IF Len(stk) = 1 THEN <<>>
    ELSE [SubSeq(stk, 1, Len(stk) - 1) EXCEPT ![Len(stk) - 1].i = @ + 1]

\* run_makefile() without the return of lines 216-219
CallNoLookup(t, stk) ==
    /\ calls' = Append(calls, <<t, Len(stk)>>)
    /\ Len(stk) < MaxDepth
    /\ stack' = Append(stk, Frame(t))
    /\ UNCHANGED ret

\* run_makefile() that returns at once for a rule it has made before
CallOnce(t, stk) ==
    /\ calls' = Append(calls, <<t, Len(stk)>>)
    /\ IF makefile_rule(t).has /\ ~(\E k \in 1..Len(calls) : calls[k][1] = t)
       THEN /\ Len(stk) < MaxDepth
            /\ stack' = Append(stk, Frame(t))
            /\ UNCHANGED ret
       ELSE /\ stack' = IF stk = <<>> THEN stk
                        ELSE [stk EXCEPT ![Len(stk)].i = @ + 1]
            /\ ret' = [target |-> t, rule |-> FALSE, ran |-> 0, newer |-> FALSE,
                       depth |-> Len(stk)]

\* run_makefile() that returns at once for a rule it is already making
CallAcyclic(t, stk) ==
    /\ calls' = Append(calls, <<t, Len(stk)>>)
    /\ IF makefile_rule(t).has /\ ~(\E k \in 1..Len(stk) : stk[k].target = t)
       THEN /\ Len(stk) < MaxDepth
            /\ stack' = Append(stk, Frame(t))
            /\ UNCHANGED ret
       ELSE /\ stack' = IF stk = <<>> THEN stk
                        ELSE [stk EXCEPT ![Len(stk)].i = @ + 1]
            /\ ret' = [target |-> t, rule |-> FALSE, ran |-> 0, newer |-> FALSE,
                       depth |-> Len(stk)]

\* run_makefile(m, t, s) is called with the calls of stk active
Call(t, stk) ==
    /\ calls' = Append(calls, <<t, Len(stk)>>)
    /\ IF makefile_rule(t).has
       THEN /\ Len(stk) < MaxDepth
            /\ stack' = Append(stk, Frame(t))
            /\ UNCHANGED ret
       ELSE /\ stack' = IF stk = <<>> THEN stk
                        ELSE [stk EXCEPT ![Len(stk)].i = @ + 1]
            /\ ret' = [target |-> t, rule |-> FALSE, ran |-> 0, newer |-> FALSE,
                       depth |-> Len(stk)]

\* the command before the prerequisites
PrereqsMadeEarly(f) == TRUE

\* the checks starting once the first prerequisite is made
PrereqsMadeFirst(f) ==
    f.i >= 1 \/ f.i = Len(rule_prereq(makefile_rule(f.target)))

\* line 231: tar_prereq[i] == NULL, the loop over the prerequisites is over
PrereqsMade(f) == f.i = Len(rule_prereq(makefile_rule(f.target)))

\* option -B ignored
ForceBuildOff == FALSE

\* line 238: s->arg_b == 1
ForceBuild == arg_b

\* lines 231-235: the next prerequisite is made
Prereq ==
    /\ pc = "main" /\ stack # <<>>
    /\ ~makefile_rule(Top.target).pnull
    /\ ~PrereqsMade(Top)
    /\ Call(rule_prereq(makefile_rule(Top.target))[Top.i + 1], stack)
    /\ UNCHANGED <<m, arg_b, target, exitcode, exists, mtime, now, pc, ti,
                   status, how, children, last, touched, wexit, scenario, out>>

\* run_makefile() leaving the loop of lines 244-251 after the first command
AfterCmdBreak(o, f, returns) ==
    IF Fatal(o) THEN UNCHANGED <<stack, ret>>
    ELSE /\ stack' = Pop(stack)
         /\ ret' = Returned(f)

\* after run_cmd() with outcome o in the innermost call, which goes on as f
AfterCmd(o, f, returns) ==
    IF Fatal(o) THEN UNCHANGED <<stack, ret>>
    ELSE IF returns
         THEN /\ stack' = Pop(stack)
              /\ ret' = Returned(f)
         ELSE /\ stack' = [stack EXCEPT ![Len(stack)] = f]
              /\ UNCHANGED ret

\* option -B asking check_file() about every prerequisite first
ForceChecked ==
    /\ pc = "main" /\ stack # <<>>
    /\ ~makefile_rule(Top.target).pnull
    /\ PrereqsMade(Top)
    /\ ForceBuild
    /\ IF \E k \in 1..Len(rule_prereq(makefile_rule(Top.target))) :
             check_file(Top.target,
                        rule_prereq(makefile_rule(Top.target))[k]) = "fatal"
       THEN /\ pc' = "exited" /\ status' = EXIT_FAILURE /\ how' = "norule"
            /\ UNCHANGED <<exitcode, exists, mtime, now, children, last,
                           touched, wexit, scenario, out, stack, ret>>
       ELSE \E o \in Outcomes(Top.target) :
               /\ run_cmd(Top.target, o)
               /\ AfterCmd(o, [Top EXCEPT !.ran = @ + 1], TRUE)
    /\ UNCHANGED <<m, arg_b, target, ti, calls>>

\* lines 238-241: option -B
Force ==
    /\ pc = "main" /\ stack # <<>>
    /\ ~makefile_rule(Top.target).pnull
    /\ PrereqsMade(Top)
    /\ ForceBuild
    /\ \E o \in Outcomes(Top.target) :
          /\ run_cmd(Top.target, o)
          /\ AfterCmd(o, [Top EXCEPT !.ran = @ + 1], TRUE)
    /\ UNCHANGED <<m, arg_b, target, ti, calls>>

\* lines 244-251: one turn of the loop over check_file()
Check ==
    /\ pc = "main" /\ stack # <<>>
    /\ ~makefile_rule(Top.target).pnull
    /\ PrereqsMade(Top)
    /\ ~ForceBuild
    /\ Top.j < Len(rule_prereq(makefile_rule(Top.target)))
    /\ LET res == check_file(Top.target,
                             rule_prereq(makefile_rule(Top.target))[Top.j + 1])
       IN  CASE res = "fatal" ->
                  /\ pc' = "exited" /\ status' = EXIT_FAILURE /\ how' = "norule"
                  /\ UNCHANGED <<exitcode, exists, mtime, now, children, last,
                                 touched, wexit, scenario, out, stack, ret>>
             [] res = "true" ->
                  \E o \in Outcomes(Top.target) :
                     /\ run_cmd(Top.target, o)
                     /\ AfterCmd(o, [Top EXCEPT !.ran = @ + 1, !.j = @ + 1], FALSE)
             [] OTHER ->
                  /\ stack' = [stack EXCEPT ![Len(stack)].j = @ + 1]
                  /\ UNCHANGED <<exitcode, exists, mtime, now, children, last,
                                 touched, wexit, scenario, out, pc, status, how, ret>>
    /\ UNCHANGED <<m, arg_b, target, ti, calls>>

\* line 252: the loop over check_file() is over, run_makefile() returns
Return ==
    /\ pc = "main" /\ stack # <<>>
    /\ ~makefile_rule(Top.target).pnull
    /\ PrereqsMade(Top)
    /\ ~ForceBuild
    /\ Top.j = Len(rule_prereq(makefile_rule(Top.target)))
    /\ stack' = Pop(stack)
    /\ ret' = Returned(Top)
    /\ UNCHANGED <<m, arg_b, target, exitcode, exists, mtime, now, pc, ti,
                   status, how, calls, children, last, touched, wexit, scenario, out>>

\* lines 254-257: rule_prereq() gave NULL
NoPrereq ==
    /\ pc = "main" /\ stack # <<>>
    /\ makefile_rule(Top.target).pnull
    /\ \E o \in Outcomes(Top.target) :
          /\ run_cmd(Top.target, o)
          /\ AfterCmd(o, [Top EXCEPT !.ran = @ + 1], TRUE)
    /\ UNCHANGED <<m, arg_b, target, ti, calls>>

\* ------------------------------------------------------------------- main

\* lines 61-65: no target on the command line
MainDefault ==
    /\ pc = "main" /\ stack = <<>>
    /\ c_tar = 0 /\ ti = 0
    /\ Call(makefile_default_target, stack)
    /\ ti' = 1
    /\ UNCHANGED <<m, arg_b, target, exitcode, exists, mtime, now, pc,
                   status, how, children, last, touched, wexit, scenario, out>>

\* lines 66-75: the targets of the command line, in order
MainTarget ==
    /\ pc = "main" /\ stack = <<>>
    /\ c_tar # 0 /\ ti < c_tar
    /\ Call(target[ti + 1], stack)
    /\ ti' = ti + 1
    /\ UNCHANGED <<m, arg_b, target, exitcode, exists, mtime, now, pc,
                   status, how, children, last, touched, wexit, scenario, out>>

\* main() leaving after the first target
MainExitEarly ==
    /\ pc = "main" /\ stack = <<>>
    /\ ti >= 1
    /\ pc' = "exited" /\ status' = exitcode /\ how' = "main"
    /\ UNCHANGED <<m, arg_b, target, exitcode, exists, mtime, now, ti, stack,
                   calls, children, last, touched, wexit, scenario, out, ret>>

\* line 76: exit(sa->exitcode)
MainExit ==
    /\ pc = "main" /\ stack = <<>>
    /\ IF c_tar = 0 THEN ti = 1 ELSE ti = c_tar
    /\ pc' = "exited" /\ status' = exitcode /\ how' = "main"
    /\ UNCHANGED <<m, arg_b, target, exitcode, exists, mtime, now, ti, stack,
                   calls, children, last, touched, wexit, scenario, out, ret>>

\* ------------------------------------------------------------ specification

\* The starting points with a name: app -> app.o -> app.c is the makefile and
\* app the target, and either (1) only app.c is a file, or (2) all three are
\* files, app.c not newer than app.o and app.o not newer than app.
Scenario ==
    IF m = Chain /\ Requested = <<"a">> /\ exists["c"]
    THEN IF ~exists["b"] /\ ~exists["a"] THEN 1
         ELSE IF /\ exists["b"] /\ exists["a"]
                 /\ mtime["c"] <= mtime["b"] /\ mtime["b"] <= mtime["a"]
              THEN 2
              ELSE 0
    ELSE 0

Targets == UNION {[1..n -> ArgNames] : n \in 0..MaxTargets}

Init ==
    /\ m \in Makefiles
    /\ arg_b \in BOOLEAN
    /\ target \in Targets
    /\ exitcode = 0
    /\ exists \in [Names -> BOOLEAN]
    /\ mtime \in [Names -> 0..MaxTime]
    /\ \A n \in Names : exists[n] <=> mtime[n] > 0
    /\ now = MaxTime
    /\ pc = "main"
    /\ ti = 0
    /\ stack = <<>>
    /\ status = 0
    /\ how = "none"
    /\ calls = <<>>
    /\ children = <<>>
    /\ last = [kind |-> "none", st |-> 0]
    /\ touched = TRUE
    /\ wexit = 0
    /\ scenario = Scenario
    /\ out = <<>>
    /\ ret = [target |-> "a", rule |-> FALSE, ran |-> 0, newer |-> FALSE,
              depth |-> 0]

Next ==
    \/ MainDefault
    \/ MainTarget
    \/ MainExit
    \/ Prereq
    \/ Force
    \/ Check
    \/ Return
    \/ NoPrereq

Spec == Init /\ [][Next]_vars

\* the runs with at most one name on the command line
InitOne == Init /\ c_tar <= 1

\* The program is one thread that runs until it exits: a step that can be
\* taken is taken.
FairSpec == InitOne /\ [][Next]_vars /\ WF_vars(Next)

TypeOK ==
    /\ pc \in {"main", "exited"}
    /\ exitcode \in 0..255
    /\ status \in 0..255
    /\ Len(stack) <= MaxDepth

\* ------------------------------------------------------ derived notions

RECURSIVE Flatten(_)
Flatten(ss) == IF ss = <<>> THEN <<>> ELSE Head(ss) \o Flatten(Tail(ss))

\* the run_makefile() calls of one traversal from t, in depth-first order of
\* the declared prerequisites, down to the depth the model follows
RECURSIVE Dfs(_, _)
Dfs(t, d) ==
    <<<<t, d>>>> \o
    (IF makefile_rule(t).has /\ d < MaxDepth
     THEN Flatten([k \in 1..Len(makefile_rule(t).prereq) |->
                      Dfs(makefile_rule(t).prereq[k], d + 1)])
     ELSE <<>>)

Expected == Flatten([k \in 1..Len(Requested) |-> Dfs(Requested[k], 0)])

IsPrefix(s, t) == Len(s) <= Len(t) /\ SubSeq(t, 1, Len(s)) = s

\* the names t depends on, directly or through other rules
RECURSIVE Closure(_)
Closure(S) ==
    LET T == S \cup UNION {{makefile_rule(n).prereq[k] :
                               k \in 1..Len(makefile_rule(n).prereq)} : n \in S}
    IN  IF T = S THEN S ELSE Closure(T)

DependsOn(t) ==
    Closure({makefile_rule(t).prereq[k] : k \in 1..Len(makefile_rule(t).prereq)})

\* neither a file nor a rule
Unresolvable(n) == ~makefile_rule(n).has /\ ~exists[n]

\* a traversal that was started depends on an unresolvable name
DoomedTraversal ==
    \E k \in 1..ti : \E n \in DependsOn(Requested[k]) : Unresolvable(n)

\* how often run_cmd() started a child for rule r
NChildren(r) == Cardinality({k \in 1..Len(children) : children[k].rule = r})

\* how often run_makefile() was called for r
NCalls(r) == Cardinality({k \in 1..Len(calls) : calls[k][1] = r})

NormalExit == pc = "exited" /\ how = "main"

\* ------------------------------------------------------------------ claims

Prereqs(t) == makefile_rule(t).prereq

Ran == [k \in 1..Len(children) |-> children[k].rule]

\* C1: bottom-up ordering.  A call of run_makefile() runs its own command
\* only when the loop over its prerequisites is over, the call it waits for
\* is the one for its next prerequisite in declaration order, and with
\* app -> app.o -> app.c, app.c a file and app.o, app missing, a run that
\* reaches the end of main() has run app.o's command and then app's.
C1_BottomUp ==
    /\ \A k \in 1..Len(stack) :
          stack[k].ran > 0 => stack[k].i = Len(Prereqs(stack[k].target))
    /\ \A k \in 1..(Len(stack) - 1) :
          /\ stack[k].i < Len(Prereqs(stack[k].target))
          /\ stack[k + 1].target = Prereqs(stack[k].target)[stack[k].i + 1]
    /\ NormalExit /\ scenario = 1 => Ran = <<"b", "a">>

C1_Witness ==
    /\ NormalExit /\ scenario = 1 /\ ~arg_b
    /\ Ran = <<"b", "a">>

\* C2 as amended: without -B, a run that started the traversal of a target
\* depending on a name with neither file nor rule never reaches the end of
\* main(): it ends in one of the exit() calls with a status that is not 0,
\* and once the process has exited no command runs and no call is made.
C2_UnresolvableFatal ==
    /\ [](~arg_b /\ pc = "exited" /\ DoomedTraversal
            => how # "main" /\ status # 0)
    /\ [][pc = "exited" => children' = children /\ calls' = calls]_vars

C2_Witness ==
    /\ ~arg_b /\ pc = "exited" /\ how = "norule" /\ status = EXIT_FAILURE
    /\ DoomedTraversal /\ Len(stack) >= 2 /\ children # <<>>

\* C2 as stated: the same for every setting of the flags
C2_AnyFlags ==
    pc = "exited" /\ DoomedTraversal => how # "main" /\ status # 0

\* C3 as amended: when main() reaches its exit(), the status of the process
\* is the exit status of the last child that ended by exiting, 0 if there
\* was none; a child that ended otherwise leaves exitcode as it was.
C3_LastExitedWins ==
    /\ exitcode = wexit
    /\ NormalExit => status = wexit

C3_Witness ==
    NormalExit /\ last.kind = "signal" /\ status = 2 /\ Len(children) >= 2

\* C3 as stated: the status is that of the last command executed
C3_LastCommand ==
    NormalExit =>
        \/ last.kind = "none" /\ status = 0
        \/ last.kind \in {"exit", "execfail"} /\ status = last.st

\* C4: a child that exits with a status other than 0 ends nothing.  The
\* process stays in the traversal and the innermost call goes on as after
\* any command: it returns (with -B, or without a prerequisite list) or
\* turns to the next check_file(); and the calls made are at every moment a
\* prefix of the depth-first order the makefile and the targets fix.
C4_FailureContinues ==
    /\ [](IsPrefix(calls, Expected))
    /\ [][(/\ children' # children
           /\ last'.kind \in {"exit", "execfail"} /\ last'.st # 0)
          => /\ pc' = "main"
             /\ stack' = IF arg_b \/ makefile_rule(Top.target).pnull
                         THEN Pop(stack)
                         ELSE [stack EXCEPT ![Len(stack)].j = @ + 1,
                                            ![Len(stack)].ran = @ + 1]]_vars

C4_Witness ==
    /\ pc = "main" /\ ti = 2 /\ stack # <<>>
    /\ Len(children) = 1 /\ children[1].top = 1
    /\ last.kind = "exit" /\ last.st = 2 /\ exitcode = 2

TopLevel == SelectSeq(calls, LAMBDA c : c[2] = 0)

\* C5: target selection.  When main() reaches its exit(), the top-level
\* calls are the default target alone if no name was given and the names
\* given, in order, otherwise; each was followed by its full traversal.
C5_TargetSelection ==
    /\ Len(TopLevel) = ti
    /\ NormalExit =>
         /\ c_tar = 0 => TopLevel = <<<<makefile_default_target, 0>>>>
         /\ c_tar # 0 => TopLevel = [k \in 1..c_tar |-> <<target[k], 0>>]
         /\ calls = Expected

C5_Witness ==
    /\ NormalExit /\ c_tar = 2 /\ target[1] # target[2]
    /\ makefile_rule(target[1]).has /\ makefile_rule(target[2]).has
    /\ \E k \in 1..Len(children) : children[k].top = 2

\* C6: a call of run_makefile() for a rule that had, when the call started,
\* a prerequisite file strictly newer than its existing target file has run
\* the rule's command at least once when it returns.
C6_NewerPrereqRuns ==
    ret.rule /\ ret.newer => ret.ran >= 1

C6_Witness ==
    /\ ~arg_b /\ ret.rule /\ ret.newer /\ ret.ran >= 1
    /\ Len(Prereqs(ret.target)) = 2

\* C7: a call of run_makefile() for a rule without prerequisites has run the
\* rule's command when it returns, whether rule_prereq() gave NULL or an
\* array without entries.
C7_NoPrereqAlwaysRuns ==
    ret.rule /\ Len(Prereqs(ret.target)) = 0 => ret.ran >= 1

\* C8: with -B, a call of run_makefile() for a rule with a command has run
\* the command exactly once when it returns, and at the end of main() every
\* such rule has run as often as run_makefile() was called for it.
C8_ForceOncePerVisit ==
    /\ arg_b /\ ret.rule /\ makefile_rule(ret.target).cmd => ret.ran = 1
    /\ arg_b /\ NormalExit =>
         \A r \in Names :
            makefile_rule(r).has /\ makefile_rule(r).cmd =>
               NChildren(r) = NCalls(r)

C8_Witness ==
    /\ arg_b /\ NormalExit /\ m = Diamond /\ Requested = <<"a">>
    /\ NChildren("c") = 2
    /\ \A n \in Names : exists[n]

\* every rule the traversal of t visits has at least one prerequisite
AllHavePrereqs(t) ==
    \A n \in {t} \cup DependsOn(t) :
        makefile_rule(n).has => Len(Prereqs(n)) > 0

SecondBuild ==
    /\ ~arg_b /\ c_tar = 2 /\ target[1] = target[2] /\ ti = 2
    /\ touched

\* C9 as amended: without -B, when the first build of a target is complete,
\* every command it ran wrote its rule's target file and every rule it
\* visited has at least one prerequisite, the second build of the same
\* target runs no command.  And with app -> app.o -> app.c all files, app.c
\* not newer than app.o and app.o not newer than app, nothing runs at all.
C9_Idempotent ==
    /\ SecondBuild /\ AllHavePrereqs(target[1])
         => \A k \in 1..Len(children) : children[k].top # 2
    /\ ~arg_b /\ scenario = 2 => children = <<>>

C9_Witness ==
    /\ SecondBuild /\ AllHavePrereqs(target[1]) /\ NormalExit
    /\ m = Diamond /\ target[1] = "a" /\ Len(children) >= 3

\* C9 as stated: the same for every rule
C9_AnyRule ==
    SecondBuild => \A k \in 1..Len(children) : children[k].top # 2

\* C10: run_cmd() for a rule without a command does nothing: a step of a
\* call for such a rule starts no child, prints nothing and leaves exitcode
\* as it was.
C10_EmptyCommandNoOp ==
    [][(pc = "main" /\ stack # <<>> /\ ~makefile_rule(Top.target).cmd)
       => children' = children /\ out' = out /\ exitcode' = exitcode]_vars

\* C11: a command that cannot be started ends the program.  A step in which
\* fork() fails, or in which the child of a rule with a command cannot
\* execute its program, ends the process with a status that is not 0.
C11_StartFailureFatal ==
    [][(\/ how' = "forkfail" /\ how # "forkfail"
        \/ /\ children' # children /\ last'.kind = "execfail"
           /\ makefile_rule(Top.target).cmd)
       => pc' = "exited" /\ status' # 0]_vars

\* the step that calls run_makefile() for a name without a rule
LeafCall ==
    /\ Len(calls') = Len(calls) + 1
    /\ ~makefile_rule(calls'[Len(calls')][1]).has

\* C12: run_makefile() for a name without a rule returns at once, whether
\* the name is a file or not: the call starts no child, prints nothing,
\* leaves exitcode and the process alone and opens no call of its own, the
\* caller moves on to its next prerequisite; a run with one such target
\* ends with status 0 and without any child.
C12_NoRuleNoOp ==
    /\ [][LeafCall =>
            /\ children' = children /\ out' = out /\ exitcode' = exitcode
            /\ pc' = "main" /\ exists' = exists /\ mtime' = mtime
            /\ stack' = IF stack = <<>> THEN <<>>
                        ELSE [stack EXCEPT ![Len(stack)].i = @ + 1]
            /\ ~ret'.rule /\ ret'.ran = 0]_vars
    /\ [](pc = "exited" /\ c_tar = 1 /\ ~makefile_rule(target[1]).has
            => how = "main" /\ status = 0 /\ children = <<>>)

C12_Witness ==
    /\ NormalExit /\ target = <<"d">> /\ ~makefile_rule("d").has
    /\ ~exists["d"] /\ status = 0 /\ calls = <<<<"d", 0>>>>

\* the decision table of the staleness test, for target t and prerequisite p
Table(t, p) ==
    IF ~exists[p] /\ ~makefile_rule(p).has THEN "fatal"
    ELSE IF ~exists[p] \/ ~exists[t] \/ mtime[p] > mtime[t] THEN "true"
    ELSE "false"

\* the innermost call is about to test its next prerequisite
Checking ==
    /\ pc = "main" /\ stack # <<>> /\ ~arg_b
    /\ ~makefile_rule(Top.target).pnull
    /\ Top.i = Len(Prereqs(Top.target))
    /\ Top.j < Len(Prereqs(Top.target))

\* C13: the decision table of check_file().  It is fatal exactly when the
\* prerequisite is neither a file nor a rule, also when the target is
\* missing too; otherwise true exactly when the prerequisite is missing,
\* the target is missing, or the prerequisite is strictly newer; on equal
\* or older times it is false, and then the turn of the loop runs nothing.
C13_DecisionTable ==
    /\ [](\A t \in Names : \A p \in Names : check_file(t, p) = Table(t, p))
    /\ [][(/\ Checking
           /\ exists[Prereqs(Top.target)[Top.j + 1]] /\ exists[Top.target]
           /\ mtime[Prereqs(Top.target)[Top.j + 1]] <= mtime[Top.target])
          => /\ children' = children /\ pc' = "main"
             /\ stack' = [stack EXCEPT ![Len(stack)].j = @ + 1]]_vars

C13_Witness ==
    /\ pc = "main" /\ stack # <<>> /\ ~arg_b
    /\ Top.j = 1 /\ Top.ran = 0
    /\ exists[Top.target] /\ exists[Prereqs(Top.target)[1]]
    /\ mtime[Prereqs(Top.target)[1]] = mtime[Top.target]
    /\ children # <<>>

\* C14: without -B, every turn of the loop of a call tests the next
\* prerequisite against the files as they are then and runs the command
\* once exactly if the test says so, then goes on to the next; so a call
\* runs its command between 0 and as many times as it has prerequisites.
C14_OncePerStalePrereq ==
    /\ [](~arg_b =>
            /\ \A k \in 1..Len(stack) :
                  /\ stack[k].ran <= stack[k].j
                  /\ stack[k].j <= Len(Prereqs(stack[k].target))
                     \/ makefile_rule(stack[k].target).pnull
            /\ ret.rule /\ ~makefile_rule(ret.target).pnull
                  => ret.ran <= Len(Prereqs(ret.target)))
    /\ [][(Checking /\ pc' = "main")
          => /\ Len(stack') = Len(stack)
             /\ stack'[Len(stack)].j = Top.j + 1
             /\ stack'[Len(stack)].ran = Top.ran +
                  (IF Table(Top.target, Prereqs(Top.target)[Top.j + 1]) = "true"
                   THEN 1 ELSE 0)]_vars

C14_Witness ==
    /\ ~arg_b /\ m = Phony /\ ret.rule /\ ret.target = "a" /\ ret.ran = 2
    /\ ~exists["b"] /\ ~exists["c"]

RECURSIVE Sum(_)
Sum(s) == IF s = <<>> THEN 0 ELSE Head(s) + Sum(Tail(s))

\* the number of dependency paths from t to r, down to the depth the model
\* follows
RECURSIVE Paths(_, _, _)
Paths(t, r, d) ==
    (IF t = r THEN 1 ELSE 0) +
    (IF makefile_rule(t).has /\ d < MaxDepth
     THEN Sum([k \in 1..Len(Prereqs(t)) |-> Paths(Prereqs(t)[k], r, d + 1)])
     ELSE 0)

\* a rule whose prerequisites are all names without a rule
LeafRule(r) ==
    /\ makefile_rule(r).has /\ Len(Prereqs(r)) > 0
    /\ \A k \in 1..Len(Prereqs(r)) : ~makefile_rule(Prereqs(r)[k]).has

\* C15: nothing marks a rule as visited.  When main() reaches its exit(),
\* run_makefile() was called for every name once per dependency path from
\* the requested targets to it; and without -B, within one traversal in
\* which every command wrote its rule's file, a rule whose prerequisites
\* no command can change ran its command at most once, however often it
\* was visited.
C15_OncePerPath ==
    /\ NormalExit =>
         \A r \in Names :
            NCalls(r) = Sum([k \in 1..Len(Requested) |-> Paths(Requested[k], r, 0)])
    /\ ~arg_b /\ ti <= 1 /\ touched =>
         \A r \in Names : LeafRule(r) => NChildren(r) <= 1

C15_Witness ==
    /\ NormalExit /\ ~arg_b /\ m = Diamond /\ Requested = <<"a">> /\ touched
    /\ NCalls("c") = 2 /\ NChildren("c") = 1 /\ NCalls("d") = 2

\* n is on a dependency cycle
OnCycle(n) == n \in DependsOn(n)

\* the traversal of a requested target meets a dependency cycle
CycleRequested ==
    \E k \in 1..Len(Requested) :
        \E n \in {Requested[k]} \cup DependsOn(Requested[k]) : OnCycle(n)

\* C16: termination.  If no requested target reaches a dependency cycle the
\* process exits; if one does, the process never reaches the exit() of
\* main(): unless an exit() of run_cmd() or check_file() ends it first, the
\* calls nest as deep as the model follows them, no call for a rule on the
\* cycle returns and no command of such a rule runs.
C16_Termination ==
    /\ ~CycleRequested => <>(pc = "exited")
    /\ CycleRequested => <>(pc = "exited" \/ Len(stack) = MaxDepth)
    /\ [](CycleRequested => ~NormalExit)
    /\ [](\A k \in 1..Len(children) : ~OnCycle(children[k].rule))
    /\ [](ret.rule => ~OnCycle(ret.target))

C16_Witness ==
    /\ m = Cycle /\ Requested = <<"a">> /\ Len(stack) = MaxDepth
    /\ pc = "main" /\ children = <<>> /\ Len(calls) = MaxDepth

\* C17: late detection of a name that cannot be made.  When check_file()
\* ends the program for a prerequisite of rule T, run_makefile() has been
\* called for every prerequisite of T and all those calls are over, the name
\* is the next one T's loop over check_file() had to look at, the ones
\* declared before it were checked and were a file or a rule, and T's
\* command ran at most once per check made.
C17_LateFatal ==
    how = "norule" =>
        /\ stack # <<>> /\ ~arg_b
        /\ LET ps == Prereqs(Top.target)
           IN  /\ Top.i = Len(ps)
               /\ \A k \in 1..Len(ps) :
                      \E c \in 1..Len(calls) : calls[c] = <<ps[k], Len(stack)>>
               /\ Top.j < Len(ps) /\ Unresolvable(ps[Top.j + 1])
               /\ \A k \in 1..Top.j : ~Unresolvable(ps[k])
               /\ Top.ran <= Top.j

\* a: b d c with d neither file nor rule: c's command ran for b and for a,
\* a's own command ran for b, and then d ended the program
C17_Witness ==
    /\ how = "norule" /\ m = Late /\ Top.target = "a"
    /\ Top.j = 1 /\ Top.ran = 1
    /\ NChildren("c") = 2 /\ NChildren("a") = 1
    /\ Ran[Len(Ran)] = "a"

\* C18: option -B never asks check_file().  With -B no call of run_makefile()
\* makes a turn of the loop over check_file(), the program never ends with
\* "no rule to make target", every call for a rule that returns has run the
\* rule's command exactly once, and a rule with a prerequisite that is
\* neither a file nor a rule starts its one child and, unless run_cmd()
\* itself ends the program, returns to its caller.
C18_ForceNeverChecks ==
    /\ [](arg_b => /\ how # "norule"
                   /\ \A k \in 1..Len(stack) :
                          stack[k].j = 0 /\ stack[k].ran = 0)
    /\ [](arg_b /\ ret.rule => ret.ran = 1)
    /\ [][(/\ arg_b /\ pc = "main" /\ stack # <<>>
           /\ Top.i = Len(Prereqs(Top.target))
           /\ \E k \in 1..Len(Prereqs(Top.target)) :
                  Unresolvable(Prereqs(Top.target)[k])
           /\ pc' = "main")
          => /\ children' = Append(children, [rule |-> Top.target, top |-> ti])
             /\ stack' = Pop(stack)
             /\ ret'.rule /\ ret'.target = Top.target]_vars

\* a: b d c with d neither file nor rule, made with -B to the end of main()
C18_Witness ==
    /\ arg_b /\ NormalExit /\ m = Late /\ Requested = <<"a">>
    /\ Unresolvable("d") /\ Ran = <<"c", "b", "c", "a">>

\* C19: a child that did not exit leaves exitcode alone.  exitcode is 0
\* until a child was waited for, it changes only in a run_cmd() whose child
\* exited, to that child's status, and a run_cmd() whose child was killed by
\* a signal keeps exitcode and does not end the program.
C19_SignalKeepsExitcode ==
    /\ [](children = <<>> => exitcode = 0)
    /\ [][exitcode' # exitcode
            => /\ children' # children
               /\ last'.kind \in {"exit", "execfail"}
               /\ exitcode' = last'.st]_vars
    /\ [][children' # children /\ last'.kind = "signal"
            => exitcode' = exitcode /\ pc' = "main" /\ pc = "main"]_vars

\* the only command of the build was killed by a signal and main() exits
\* with status 0
C19_Witness ==
    /\ NormalExit /\ status = 0
    /\ Len(children) = 1 /\ makefile_rule(children[1].rule).cmd
    /\ last.kind = "signal"

====
